---- MODULE Spec2Model ----
(***************************************************************************)
(* Model of protodemo's build.py: main() resolves the manifest of          *)
(* (service, lang) jobs, inspects the protorepo's HEAD and runs            *)
(* update_repo on each job's downstream git repository.                    *)
(*                                                                         *)
(* Strings that the code splits, formats or compares are sequences of      *)
(* characters / pieces; a git object id is the object itself (git ids are  *)
(* content hashes), so two commits are the same exactly when their tree,   *)
(* parents, signatures and message are the same.                           *)
(***************************************************************************)
EXTENDS Integers, Sequences, FiniteSets, TLC

\* ------------------------------------------------------------------ bounds
\* number of invocations of main()
MaxRuns == 2
\* number of commits of the protorepo (HEAD moves MaxHeads - 1 times)
MaxHeads == 2
\* largest number of deltas of one diff of the protorepo
MaxDiff == 1
\* largest number of override objects of a service's config.json, for
\* load_service_config called on its own
MaxOverrides == 2

\* ------------------------------------------------------- python / git values
\* Python's None, as returned by dict.get on a missing key
None == <<"<None>">>
\* absence of a commit, of a repository directory, of an exit code
Null == [null |-> TRUE]

\* build.py:95
branch == <<"refs/heads/master">>

RECURSIVE SplitAcc(_, _, _)
SplitAcc(s, sep, cur) ==
    IF s = <<>> THEN <<cur>>
    ELSE IF Head(s) = sep THEN <<cur>> \o SplitAcc(Tail(s), sep, <<>>)
    ELSE SplitAcc(Tail(s), sep, Append(cur, Head(s)))

\* str.split(sep)
split(s, sep) == SplitAcc(s, sep, <<>>)

\* dict.get(key)
Get(d, k) == IF k \in DOMAIN d THEN d[k] ELSE None

\* dict.update(other): keys of other win
Update(d, o) ==
    [k \in (DOMAIN d) \cup (DOMAIN o) |-> IF k \in DOMAIN o THEN o[k] ELSE d[k]]

\* ------------------------------------------------------------ configuration
\* directories under service/
Services == {<<"a">>, <<"b">>}

\* build.py:187, os.listdir(service_dir), taken in sorted order
ServiceListing == << <<"a">>, <<"b">> >>

\* the config.json of the protorepo and of each service directory.  NoFile
\* stands for a service directory without config.json.  In the last choice the
\* config of service b names the repository service a gets by default.
NoFile == <<[missing |-> "config.json"]>>

ConfigChoices ==
    { [default |-> [github_org |-> "acme"],
       service |-> [s \in Services |->
                      IF s = <<"a">> THEN <<[lang |-> "go"]>> ELSE <<[lang |-> "python"]>>]],
      [default |-> [github_org |-> "acme"],
       service |-> [s \in Services |->
                      IF s = <<"a">> THEN <<[lang |-> "go"]>> ELSE NoFile]],
      [default |-> [github_org |-> "acme"],
       service |-> [s \in Services |->
                      IF s = <<"a">> THEN <<[lang |-> "rust"]>> ELSE <<[lang |-> "python"]>>]],
      [default |-> [github_org |-> "acme"],
       service |-> [s \in Services |->
                      IF s = <<"a">> THEN <<[lang |-> "go"]>>
                      ELSE <<[lang |-> "python", repo |-> <<"proto-", "a", "-", "go">>]>>]] }

\* mutant: the schema has no enum of languages
FullConfigValid_mut(full_config) ==
    /\ "lang" \in DOMAIN full_config
    /\ "github_org" \in DOMAIN full_config

\* config.py:22-33, _FULL_CONFIG_SCHEMA (every value of the model is a string)
FullConfigValid(full_config) ==
    /\ "lang" \in DOMAIN full_config
    /\ "github_org" \in DOMAIN full_config
    /\ full_config["lang"] \in {"python", "go"}

\* config.py:43-49
generated_source_dir(lang, service) == service \o <<"_proto">>

\* config.py:64-75, one iteration of the loop of load_service_config
resolve_one(service, default_config, service_lang_config) ==
    LET full_config == Update(default_config, service_lang_config)
        with_repo == IF "repo" \in DOMAIN full_config THEN full_config
                     ELSE Update(full_config,
                                 [repo |-> <<"proto-">> \o service \o <<"-", full_config["lang"]>>])
    IN  Update(with_repo,
               [path |-> <<"service/">> \o service,
                service |-> service,
                source_dir |-> generated_source_dir(full_config["lang"], service)])

\* config.py:52-76: TRUE when load_service_config raises
load_service_config_fails(service, default_config, service_file) ==
    \/ service_file = NoFile
    \/ \E i \in 1..Len(service_file) :
          ~FullConfigValid(Update(default_config, service_file[i]))

RECURSIVE shared_config(_, _, _, _)
\* mutant: full_config is the default config itself, not a copy of it, so
\* that it carries what the earlier iterations put into it
shared_config(service, default_config, service_file, i) ==
    IF i = 0 THEN default_config
    ELSE resolve_one(service, shared_config(service, default_config, service_file, i - 1),
                     service_file[i])

load_service_config_mut(service, default_config, service_file) ==
    [i \in 1..Len(service_file) |-> shared_config(service, default_config, service_file, i)]

\* config.py:52-76: the list load_service_config returns when it does not raise
load_service_config(service, default_config, service_file) ==
    [i \in 1..Len(service_file) |-> resolve_one(service, default_config, service_file[i])]

\* ------------------------------------------------------------ the protorepo
\* tag names under refs/tags/, as characters
TagA1 == <<"a", "/", "1">>
TagA2 == <<"a", "/", "2">>
TagB1 == <<"b", "/", "1">>
TagRel == <<"r", "1">>
TagDeep == <<"a", "/", "1", "/", "2">>
TagNest == <<"n", "1">>

\* names of the tags that are annotated when created (the others are lightweight)
AnnotatedNames == {TagA2}

\* names of the annotated tags whose target is another annotated tag, itself
\* pointing at the commit
NestedNames == {TagNest}

\* the tag names in the order the reference database iterates them (sorted)
SortedNames == <<TagA1, TagDeep, TagA2, TagB1, TagNest, TagRel>>

\* what a later commit of the protorepo brings: the files the cookiecutter
\* template renders (skel), the files protoc generates (gen), and the tags
\* created at or moved to the commit
CommitChoices ==
    { [skel |-> {}, gen |-> {}, tags |-> {TagA1, TagA2}],
      [skel |-> {"README"}, gen |-> {"pb"}, tags |-> {TagA1, TagA2, TagB1, TagNest}],
      [skel |-> {"README"}, gen |-> {}, tags |-> {}] }

\* the first commit of the protorepo: its tags and what is rendered from it
FirstTags == {TagA1, TagB1, TagRel, TagDeep, TagNest}
FirstContent == [skel |-> {"README"}, gen |-> {}]

\* the n-th commit of the protorepo
SrcCommit(n) ==
    [type |-> "commit", id |-> n,
     author |-> IF n % 2 = 1 THEN "alice" ELSE "bob",
     message |-> <<"change", n>>]

\* the object a tag reference of the protorepo points at
SrcTagTarget(name, n) ==
    IF name \in NestedNames
    THEN [type |-> "tag",
          target |-> [type |-> "tag", target |-> SrcCommit(n), tagger |-> "releaser",
                      message |-> <<"release">> \o name],
          tagger |-> "releaser", message |-> <<"signed">> \o name]
    ELSE IF name \in AnnotatedNames
    THEN [type |-> "tag", target |-> SrcCommit(n), tagger |-> "releaser",
          message |-> <<"release">> \o name]
    ELSE SrcCommit(n)

VARIABLES
    srcHead,      \* protorepo: number of the commit HEAD points at
    srcRefs,      \* protorepo: references under refs/tags/, [ref, target]
    srcSkel,      \* protorepo: files rendered from lang/cookiecutter-*
    srcGen,       \* protorepo: files protoc generates from service/*
    cfg,          \* protorepo: config.json and service/*/config.json
    remote,       \* downstream repositories, by clone url
    out,          \* repositories under the --output directory, by repo name
    tmp,          \* repositories under this run's temporary directory
    pc,           \* position of main / update_repo
    runs,         \* number of runs of main started
    args,         \* parse_args()
    repodata,     \* analyze_head(repo)
    todo,         \* services of os.listdir still to be loaded
    manifest,     \* main: manifest
    j,            \* main: position in manifest
    push_objects, \* update_repo: push_objects
    exit,         \* exit code of the last run of main
    invoked,      \* history: positions of manifest update_repo was called for
    log,          \* history: what the current update_repo did
    lastDone,     \* history: snapshot of the last completed update_repo per repository
    call,         \* a function called on its own: its name and arguments
    result        \* what that call returned or raised

vars == <<srcHead, srcRefs, srcSkel, srcGen, cfg, remote, out, tmp,
          pc, runs, args, repodata, todo, manifest, j, push_objects, exit,
          invoked, log, lastDone, call, result>>

\* the variables of a function called on its own
fnVars == <<call, result>>

srcVars == <<srcHead, srcRefs, srcSkel, srcGen, cfg>>

\* ---------------------------------------------------------------- gitutils
\* mutant: the diff of the working tree against the index is left out
check_dirty_mut(working, last_commit, staged) ==
    IF staged + last_commit # 0 THEN TRUE ELSE FALSE

\* gitutils.py:91-99
check_dirty(working, last_commit, staged) ==
    IF staged + working + last_commit # 0 THEN TRUE ELSE FALSE

\* the sizes of the three diffs of check_dirty that a working tree, an index
\* and a HEAD can have: two of the three being equal pairs makes the third one
DiffChoices ==
    {d \in [working : 0..MaxDiff, last_commit : 0..MaxDiff, staged : 0..MaxDiff] :
        Cardinality({k \in {"working", "last_commit", "staged"} : d[k] = 0}) # 2}

\* mutant: the reference's target is returned as it is
get_target_from_tagref_mut(r) == r.target

\* gitutils.py:153-162
get_target_from_tagref(r) ==
    IF r.target.type = "tag" THEN r.target.target ELSE r.target

\* Repository.listall_references: the branch HEAD is on, then the tags
listall_references(refs) ==
    LET present == SelectSeq(SortedNames, LAMBDA n : \E r \in refs : r.ref = <<"refs/tags/">> \o n)
    IN  <<[ref |-> branch, target |-> SrcCommit(srcHead)]>>
        \o [i \in 1..Len(present) |-> CHOOSE r \in refs : r.ref = <<"refs/tags/">> \o present[i]]

\* gitutils.py:141-150
get_all_tags(refs, target) ==
    SelectSeq(listall_references(refs),
              LAMBDA r : Head(r.ref) = "refs/tags/" /\ get_target_from_tagref(r) = target)

\* gitutils.py:133-136: the keys analyze_tag adds for a two-segment tag name
tag_affinity(tagname) ==
    LET tag_parts == split(tagname, "/")
    IN  IF Len(tag_parts) = 2
        THEN [service |-> tag_parts[1], version |-> tag_parts[2]]
        ELSE <<>>

\* mutant: an annotated tag is treated as a lightweight one
analyze_tag_mut(r, head) ==
    LET tagname == split(r.ref, "refs/tags/")[2]
        data == [name |-> tagname,
                 tag_ref |-> r.ref,
                 tagger |-> head.author,
                 message |-> tagname \o <<"\n">>]
    IN  Update(data, tag_affinity(tagname))

\* gitutils.py:102-138
analyze_tag(r, head) ==
    LET tagname == split(r.ref, "refs/tags/")[2]
        tagobj == r.target
        data == [name |-> tagname,
                 tag_ref |-> r.ref,
                 tagger |-> IF tagobj.type = "tag" THEN tagobj.tagger ELSE head.author,
                 message |-> IF tagobj.type = "tag" THEN tagobj.message
                             ELSE tagname \o <<"\n">>]
    IN  Update(data, tag_affinity(tagname))

\* gitutils.py:65-88; now is the time of repo.default_signature, diffs the
\* sizes of the three diffs of check_dirty
analyze_head(refs, now, diffs) ==
    [committer |-> [name |-> "ci", time |-> now],
     author |-> SrcCommit(srcHead).author,
     message |-> SrcCommit(srcHead).message,
     dirty |-> check_dirty(diffs.working, diffs.last_commit, diffs.staged),
     tags |-> LET refseq == get_all_tags(refs, SrcCommit(srcHead))
              IN  [i \in 1..Len(refseq) |-> analyze_tag(refseq[i], SrcCommit(srcHead))]]

\* ------------------------------------------------------ downstream git model
\* names of 'output_dir/repo' directories and clone urls of the jobs of ConfigChoices
RepoNames == {<<"proto-">> \o s \o <<"-", l>> : s \in Services, l \in {"python", "go"}}

\* build.py:67, '{}/{}'.format(github_org, repo)
clone_url(job_config) == <<job_config["github_org"], "/">> \o job_config["repo"]

Urls == {<<"acme", "/">> \o r : r \in RepoNames}

\* a repository without references, as the hosting service creates it
EmptyRemote == [branch |-> Null, tags |-> {}]

\* pygit2.init_repository on a directory that holds no repository
FreshRepo == [branch |-> Null, tags |-> {}, wt |-> {}, index |-> {}]

RECURSIVE IsAncestor(_, _)
\* commit c is tip or one of its ancestors
IsAncestor(c, tip) ==
    IF tip = Null THEN FALSE
    ELSE IF c = tip THEN TRUE
    ELSE \E i \in 1..Len(tip.parents) : IsAncestor(c, tip.parents[i])

TreeOf(c) == IF c = Null THEN {} ELSE c.tree

\* pygit2.clone_repository: the branch, its checkout, and the tags that point
\* into the fetched history; a tag whose commit is on no branch is fetched or
\* not (orphans), depending on the transport
clone_repository(rem, orphans) ==
    [branch |-> rem.branch,
     tags |-> {t \in rem.tags : orphans \/ IsAncestor(t.target, rem.branch)},
     wt |-> TreeOf(rem.branch),
     index |-> TreeOf(rem.branch)]

\* Repository.is_empty: no reference besides an unborn HEAD
is_empty(repo) == repo.branch = Null /\ repo.tags = {}

\* mutant: nothing is removed
wipe_git_repo_mut(repo) == repo

\* fsutils.py:4-12: everything but .git is removed
wipe_git_repo(repo) == [repo EXCEPT !.wt = {}]

\* build.py:75-81: files the template of the job's lang renders into repo_dir
cookiecutter(repo, job_config) ==
    [repo EXCEPT !.wt = @ \cup {<<f>> : f \in srcSkel}]

\* codegen.py:8-21: files protoc writes below repo_dir/source_dir
codegen(repo, job_config) ==
    [repo EXCEPT !.wt = @ \cup {job_config["source_dir"] \o <<"/", f>> : f \in srcGen}]

\* build.py:104-105: index.add_all() stages additions, changes and deletions
add_all(repo) == [repo EXCEPT !.index = repo.wt]

\* build.py:107: repo.diff('HEAD', cached=True), the deltas between the tip's
\* tree and the index
diff_cached(repo) == (repo.index \ TreeOf(repo.branch)) \cup (TreeOf(repo.branch) \ repo.index)

\* build.py:98-99
initial_commit(git_data) ==
    [tree |-> {}, parents |-> <<>>, author |-> git_data.author,
     committer |-> git_data.committer, message |-> <<"Initial Commit">>]

\* mutant: the marker is never put
dirty_message_mut(git_data) == <<>>

\* build.py:111
dirty_message(git_data) == IF git_data.dirty THEN <<"[DIRTY] - ">> ELSE <<>>

\* mutant: the commit is made without parent
content_commit_mut(repo, git_data) ==
    [tree |-> repo.index, parents |-> <<>>, author |-> git_data.author,
     committer |-> git_data.committer,
     message |-> dirty_message(git_data) \o <<"Automatic Commit - protoc codegen\n\n">>
                 \o git_data.message]

\* build.py:113-121
content_commit(repo, git_data) ==
    [tree |-> repo.index, parents |-> <<repo.branch>>, author |-> git_data.author,
     committer |-> git_data.committer,
     message |-> dirty_message(git_data) \o <<"Automatic Commit - protoc codegen\n\n">>
                 \o git_data.message]

\* mutant: the commit is made whatever the diff
commit_needed_mut(diff) == TRUE

\* build.py:110: a commit is made when the diff has deltas
commit_needed(diff) == Cardinality(diff) # 0

\* mutant: any tag with a service is replicated
tag_matches_mut(tag_data, job_config) == "service" \in DOMAIN tag_data

\* build.py:127: the tag belongs to the job's service
tag_matches(tag_data, job_config) == Get(tag_data, "service") = job_config["service"]

\* mutant: create_tag replaces a tag of the same name
tag_exists_mut(repo, version) == FALSE

\* build.py:129-135 raises ValueError when the tag name is taken
tag_exists(repo, version) == \E t \in repo.tags : t.name = version

\* mutant: the tag points at the tip the commit step found
new_tag_mut(repo, tag_data) ==
    [name |-> tag_data["version"], target |-> log.tip,
     tagger |-> tag_data["tagger"], message |-> tag_data["message"]]

\* build.py:129-135, the tag repo.create_tag creates
new_tag(repo, tag_data) ==
    [name |-> tag_data["version"], target |-> repo.branch,
     tagger |-> tag_data["tagger"], message |-> tag_data["message"]]

\* build.py:136
tag_ref(version) == <<"refs/tags/">> \o version

\* mutant: the push is made without --git
push_decided_mut(objects, update_git) == objects # <<>>

\* build.py:145-147: the push is made
push_decided(objects, update_git) == objects # <<>> /\ update_git

\* Remote.push without '+': a reference is accepted when it is new on the
\* remote or fast-forwards it; otherwise the whole push is rejected
push_accepted(rem, repo, objects) ==
    \A i \in 1..Len(objects) :
        IF objects[i] = branch
        THEN rem.branch = Null \/ IsAncestor(rem.branch, repo.branch)
        ELSE \A t \in rem.tags :
                 tag_ref(t.name) = objects[i] => t \in repo.tags

\* build.py:151, the remote after an accepted push of objects
push(rem, repo, objects) ==
    [branch |-> IF \E i \in 1..Len(objects) : objects[i] = branch
                THEN repo.branch ELSE rem.branch,
     tags |-> rem.tags \cup
              {t \in repo.tags : \E i \in 1..Len(objects) : objects[i] = tag_ref(t.name)}]

\* ---------------------------------------------------------------- main state
\* argparse leaves --lang / --service at None, which is false like ''
NoLang == ""
NoService == <<>>

\* the --lang / --service pairs a run is given
FilterChoices ==
    { [lang |-> NoLang, service |-> NoService],
      [lang |-> "go", service |-> NoService],
      [lang |-> NoLang, service |-> <<"b">>] }

\* the --git / --output pairs a run is given: a run without --output works
\* in a temporary directory (build.py:172-177)
ModeChoices ==
    [git : BOOLEAN, output : BOOLEAN]

NoArgs == [git |-> FALSE, output |-> FALSE, lang |-> NoLang, service |-> NoService]
NoData == [committer |-> Null, author |-> "", message |-> <<>>, dirty |-> FALSE, tags |-> <<>>]
\* history of one call of update_repo: job, its job_config; rerun, the downstream repository is as
\* the last completed call for the same job and snapshot left it; initial, the
\* bootstrap commit was made; tip, the branch tip before staging; commit, the
\* content commit was made; attempted / created / skipped, the tags the loop
\* tried, created and found existing; decided, line 145 was reached; pushed,
\* the batch given to Remote.push; returned, update_repo returned; before, the
\* remote when the call began; resumed, the previous call for the same job and
\* snapshot failed with nothing pushed
NoLog == [job |-> Null, rerun |-> FALSE, before |-> Null, resumed |-> FALSE, tip |-> Null, initial |-> FALSE, commit |-> FALSE, created |-> {},
          skipped |-> {}, attempted |-> {}, decided |-> FALSE, pushed |-> <<>>,
          returned |-> FALSE]

NoDirs == [r \in RepoNames |-> Null]

\* key of the directory under a temporary directory, which does not outlive the run
Scratch == <<"tmp">>

TagRefsFor(names, n) ==
    {[ref |-> <<"refs/tags/">> \o name, target |-> SrcTagTarget(name, n)] : name \in names}

Init ==
    /\ srcHead = 1
    /\ srcRefs = TagRefsFor(FirstTags, 1)
    /\ srcSkel = FirstContent.skel
    /\ srcGen = FirstContent.gen
    /\ cfg \in ConfigChoices
    /\ remote = [u \in Urls |-> EmptyRemote]
    /\ out = NoDirs
    /\ tmp = NoDirs
    /\ pc = "idle"
    /\ runs = 0
    /\ args = NoArgs
    /\ repodata = NoData
    /\ todo = <<>>
    /\ manifest = <<>>
    /\ j = 0
    /\ push_objects = <<>>
    /\ exit = Null
    /\ invoked = {}
    /\ log = NoLog
    /\ lastDone = [k \in Urls \cup RepoNames \cup {Scratch} |-> Null]
    /\ call = Null
    /\ result = Null

\* the job update_repo is working on, its directory and its repository
Job == manifest[j]
RepoDir == Job["repo"]
Repo == IF args.output THEN out[RepoDir] ELSE tmp[RepoDir]

\* the downstream repository a run of update_repo works against: the remote
\* with --git, the directory under --output otherwise
Downstream(job_config, a) ==
    IF a.git THEN clone_url(job_config)
    ELSE IF a.output THEN job_config["repo"]
    ELSE Scratch

\* what a run of update_repo for job_config takes from the protorepo
Snapshot(job_config) ==
    [job |-> job_config, head |-> srcHead,
     tags |-> get_all_tags(srcRefs, SrcCommit(srcHead)),
     skel |-> srcSkel, gen |-> srcGen]

\* history: the call for job_config failed with nothing pushed
Failed(job_config) == [failed |-> Snapshot(job_config)]

\* history of a call that begins: the job and the remote it finds
Begin(job_config) ==
    [NoLog EXCEPT !.job = job_config,
                  !.before = IF args.git THEN remote[clone_url(job_config)] ELSE Null,
                  !.resumed = (lastDone[Downstream(job_config, args)] = Failed(job_config))]

SetRepo(r) ==
    IF args.output
    THEN out' = [out EXCEPT ![RepoDir] = r] /\ UNCHANGED tmp
    ELSE tmp' = [tmp EXCEPT ![RepoDir] = r] /\ UNCHANGED out

\* build.py:206-215: sys.exit(code) after the finally clause removed tempdir
Exit(code) ==
    /\ pc' = "done"
    /\ exit' = code
    /\ tmp' = NoDirs

\* the job's directory is left as r when the run ends (--output keeps it)
SetRepoAtExit(r) ==
    IF args.output THEN out' = [out EXCEPT ![RepoDir] = r] ELSE UNCHANGED out

\* ------------------------------------------------------ the protorepo's moves
\* a developer commits to the protorepo and tags the new HEAD (uncommitted
\* changes are an input of StartRun)
SourceCommit ==
    /\ pc = "idle"
    /\ srcHead < MaxHeads
    /\ srcHead' = srcHead + 1
    /\ \E c \in CommitChoices :
          /\ srcRefs' = {r \in srcRefs : r.ref \notin {<<"refs/tags/">> \o n : n \in c.tags}}
                        \cup TagRefsFor(c.tags, srcHead + 1)
          /\ srcSkel' = c.skel
          /\ srcGen' = c.gen
    /\ UNCHANGED <<fnVars, cfg, remote, out, tmp, pc, runs, args, repodata, todo, manifest, j,
                   push_objects, exit, invoked, log, lastDone>>

\* ----------------------------------------------------------------------- main
\* build.py:155-177
StartRun ==
    /\ pc = "idle"
    /\ runs < MaxRuns
    /\ runs' = runs + 1
    /\ \E m \in ModeChoices, f \in FilterChoices :
          args' = [git |-> m.git, output |-> m.output, lang |-> f.lang, service |-> f.service]
    /\ \E diffs \in DiffChoices : repodata' = analyze_head(srcRefs, runs + 1, diffs)
    /\ manifest' = <<>>
    /\ tmp' = NoDirs
    /\ pc' = "check"
    /\ UNCHANGED <<fnVars, srcVars, remote, out, todo, j, push_objects, exit, invoked, log, lastDone>>

\* mutant: the dirty check is missing
dirty_refused_mut(git_data, a) == FALSE

\* build.py:180
dirty_refused(git_data, a) == git_data.dirty /\ a.git

\* build.py:180-183
CheckDirty ==
    /\ pc = "check"
    /\ IF dirty_refused(repodata, args)
       THEN Exit(1) /\ UNCHANGED todo
       ELSE pc' = "config" /\ todo' = ServiceListing /\ UNCHANGED <<exit, tmp>>
    /\ UNCHANGED <<fnVars, srcVars, remote, out, runs, args, repodata, manifest, j, push_objects,
                   invoked, log, lastDone>>

\* mutant: the jobs of a service are run before the next service is loaded
LoadConfig_mut ==
    /\ pc = "config"
    /\ LET service == Head(todo)
       IN  IF load_service_config_fails(service, cfg.default, cfg.service[service])
           THEN Exit(1) /\ UNCHANGED <<todo, manifest, j>>
           ELSE /\ manifest' = manifest \o
                               load_service_config(service, cfg.default, cfg.service[service])
                /\ todo' = Tail(todo)
                /\ pc' = "loop"
                /\ j' = 1
                /\ UNCHANGED <<exit, tmp>>
    /\ UNCHANGED <<fnVars, srcVars, remote, out, runs, args, repodata, push_objects,
                   invoked, log, lastDone>>

\* build.py:187-189, one iteration of the loop over the services
LoadConfig ==
    /\ pc = "config"
    /\ LET service == Head(todo)
       IN  IF load_service_config_fails(service, cfg.default, cfg.service[service])
           THEN Exit(1) /\ UNCHANGED <<todo, manifest, j>>
           ELSE /\ manifest' = manifest \o
                               load_service_config(service, cfg.default, cfg.service[service])
                /\ todo' = Tail(todo)
                /\ pc' = IF Tail(todo) = <<>> THEN "loop" ELSE "config"
                /\ j' = 1
                /\ UNCHANGED <<exit, tmp>>
    /\ UNCHANGED <<fnVars, srcVars, remote, out, runs, args, repodata, push_objects,
                   invoked, log, lastDone>>

\* build.py:191-194: the job passes the --lang and --service filters
passes_filters(a, job_config) ==
    /\ ~(a.lang # NoLang /\ a.lang # job_config["lang"])
    /\ ~(a.service # NoService /\ a.service # job_config["service"])

\* build.py:190-194, a job the filters leave out
SkipJob ==
    /\ pc = "loop"
    /\ j <= Len(manifest)
    /\ ~passes_filters(args, Job)
    /\ j' = j + 1
    /\ UNCHANGED <<fnVars, srcVars, remote, out, tmp, pc, runs, args, repodata, todo, manifest,
                   push_objects, exit, invoked, log, lastDone>>

\* build.py:190, the manifest is exhausted: main returns
Finish ==
    /\ pc = "loop"
    /\ j > Len(manifest)
    /\ Exit(0)
    /\ UNCHANGED <<fnVars, srcVars, remote, out, runs, args, repodata, todo, manifest, j,
                   push_objects, invoked, log, lastDone>>

\* the process is gone: what main held in memory is gone with it
ProcessExit ==
    /\ pc = "done"
    /\ pc' = "idle"
    /\ args' = NoArgs
    /\ repodata' = NoData
    /\ todo' = <<>>
    /\ manifest' = <<>>
    /\ j' = 0
    /\ push_objects' = <<>>
    /\ exit' = Null
    /\ invoked' = {}
    /\ log' = NoLog
    /\ lastDone' = [lastDone EXCEPT ![Scratch] = Null]
    /\ UNCHANGED <<fnVars, srcVars, remote, out, tmp, runs>>

\* ---------------------------------------------------------------- update_repo
\* build.py:73-81, prepare_repo after the clone or init
prepare_repo(repo, job_config) == cookiecutter(wipe_git_repo(repo), job_config)

\* build.py:97-101, the repository after the bootstrap step
bootstrap(repo, git_data) ==
    IF is_empty(repo) THEN [repo EXCEPT !.branch = initial_commit(git_data)] ELSE repo

\* build.py:196-203 and 86-101: main calls update_repo for the next job that
\* passes the filters; prepare_repo returns and the bootstrap step is done
Prepare ==
    /\ pc = "loop"
    /\ j <= Len(manifest)
    /\ passes_filters(args, Job)
    /\ invoked' = invoked \cup {j}
    /\ push_objects' = <<>>
    /\ IF args.git /\ Repo # Null
       THEN /\ Exit(1)
            /\ log' = Begin(Job)
            /\ lastDone' = [lastDone EXCEPT ![Downstream(Job, args)] = Failed(Job)]
            /\ UNCHANGED out
       ELSE /\ lastDone' = [lastDone EXCEPT ![Downstream(Job, args)] = Null]
            /\ \E orphans \in BOOLEAN :
                  LET opened == IF args.git
                                THEN clone_repository(remote[clone_url(Job)], orphans)
                                ELSE IF Repo = Null THEN FreshRepo ELSE Repo
                      prepared == prepare_repo(opened, Job)
                  IN  /\ SetRepo(bootstrap(prepared, repodata))
                      /\ log' = [Begin(Job) EXCEPT
                                    !.rerun = (lastDone[Downstream(Job, args)] = Snapshot(Job)),
                                    !.tip = bootstrap(prepared, repodata).branch,
                                    !.initial = is_empty(prepared)]
            /\ pc' = "codegen"
            /\ UNCHANGED exit
    /\ UNCHANGED <<fnVars, srcVars, remote, runs, args, repodata, todo, manifest, j>>

\* build.py:65-71: the clone (no such remote, no network) or the init raises
PrepareFails ==
    /\ pc = "loop"
    /\ j <= Len(manifest)
    /\ passes_filters(args, Job)
    /\ invoked' = invoked \cup {j}
    /\ log' = Begin(Job)
    /\ lastDone' = [lastDone EXCEPT ![Downstream(Job, args)] = Failed(Job)]
    /\ Exit(1)
    /\ UNCHANGED <<fnVars, srcVars, remote, out, runs, args, repodata, todo, manifest, j, push_objects>>

\* mutant: the bootstrapped branch is pushed before codegen runs
CodegenFails_mut ==
    /\ pc = "codegen"
    /\ Exit(1)
    /\ lastDone' = [lastDone EXCEPT ![Downstream(Job, args)] = Failed(Job)]
    /\ remote' = IF args.git
                 THEN [remote EXCEPT ![clone_url(Job)] = push(@, Repo, <<branch>>)]
                 ELSE remote
    /\ UNCHANGED <<fnVars, srcVars, out, runs, args, repodata, todo, manifest, j,
                   push_objects, invoked, log>>

\* build.py:103: the container fails
CodegenFails ==
    /\ pc = "codegen"
    /\ Exit(1)
    /\ lastDone' = [lastDone EXCEPT ![Downstream(Job, args)] = Failed(Job)]
    /\ UNCHANGED <<fnVars, srcVars, remote, out, runs, args, repodata, todo, manifest, j,
                   push_objects, invoked, log>>

\* build.py:103-124: codegen, staging and the commit step; repo.diff('HEAD')
\* raises when HEAD is unborn
CodegenCommit ==
    /\ pc = "codegen"
    /\ LET staged == add_all(codegen(Repo, Job))
       IN  IF staged.branch = Null
           THEN /\ Exit(1)
                /\ SetRepoAtExit(staged)
                /\ lastDone' = [lastDone EXCEPT ![Downstream(Job, args)] = Failed(Job)]
                /\ UNCHANGED <<push_objects, log>>
           ELSE /\ IF commit_needed(diff_cached(staged))
                   THEN /\ SetRepo([staged EXCEPT !.branch = content_commit(staged, repodata)])
                        /\ push_objects' = Append(push_objects, branch)
                        /\ log' = [log EXCEPT !.commit = TRUE]
                   ELSE SetRepo(staged) /\ UNCHANGED <<push_objects, log>>
                /\ pc' = "tags"
                /\ UNCHANGED <<exit, lastDone>>
    /\ UNCHANGED <<fnVars, srcVars, remote, runs, args, repodata, todo, manifest, j, invoked>>

\* build.py:127-143, one iteration of the loop over git_data['tags']; st holds
\* the repository, push_objects and the history of the loop
tag_step(st, tag_data, job_config) ==
    IF tag_matches(tag_data, job_config)
    THEN IF tag_exists(st.repo, tag_data["version"])
         THEN [st EXCEPT !.attempted = @ \cup {tag_data["name"]},
                         !.skipped = @ \cup {tag_data["name"]}]
         ELSE [st EXCEPT !.repo.tags = @ \cup {new_tag(st.repo, tag_data)},
                         !.push_objects = Append(@, tag_ref(tag_data["version"])),
                         !.attempted = @ \cup {tag_data["name"]},
                         !.created = @ \cup {[name |-> tag_data["name"],
                                              tag |-> new_tag(st.repo, tag_data)]}]
    ELSE st

RECURSIVE tag_loop_mut(_, _, _, _)
\* mutant: the first tag that exists ends the loop
tag_loop_mut(st, tags, job_config, i) ==
    IF i > Len(tags) THEN st
    ELSE IF tag_matches(tags[i], job_config) /\ tag_exists(st.repo, tags[i]["version"])
    THEN tag_step(st, tags[i], job_config)
    ELSE tag_loop_mut(tag_step(st, tags[i], job_config), tags, job_config, i + 1)

RECURSIVE tag_loop(_, _, _, _)
\* build.py:126-143, the loop from its i-th iteration on
tag_loop(st, tags, job_config, i) ==
    IF i > Len(tags) THEN st
    ELSE tag_loop(tag_step(st, tags[i], job_config), tags, job_config, i + 1)

\* build.py:126-143
Tags ==
    /\ pc = "tags"
    /\ LET st == tag_loop([repo |-> Repo, push_objects |-> push_objects, attempted |-> {},
                           skipped |-> {}, created |-> {}],
                          repodata.tags, Job, 1)
       IN  /\ SetRepo(st.repo)
           /\ push_objects' = st.push_objects
           /\ log' = [log EXCEPT !.attempted = st.attempted, !.skipped = st.skipped,
                                 !.created = st.created]
    /\ pc' = "push"
    /\ UNCHANGED <<fnVars, srcVars, remote, runs, args, repodata, todo, manifest, j, exit, invoked,
                   lastDone>>

\* build.py:145-151, and update_repo returns to the loop of main; a rejected
\* push raises
Push ==
    /\ pc = "push"
    /\ IF push_decided(push_objects, args.git)
       THEN IF push_accepted(remote[clone_url(Job)], Repo, push_objects)
            THEN /\ remote' = [remote EXCEPT ![clone_url(Job)] = push(@, Repo, push_objects)]
                 /\ log' = [log EXCEPT !.decided = TRUE, !.pushed = push_objects,
                                       !.returned = TRUE]
                 /\ lastDone' = [lastDone EXCEPT ![Downstream(Job, args)] = Snapshot(Job)]
                 /\ pc' = "loop"
                 /\ j' = j + 1
                 /\ UNCHANGED <<exit, tmp>>
            ELSE /\ Exit(1)
                 /\ log' = [log EXCEPT !.decided = TRUE, !.pushed = push_objects]
                 /\ UNCHANGED <<remote, lastDone, j>>
       ELSE /\ log' = [log EXCEPT !.decided = TRUE, !.returned = TRUE]
            /\ lastDone' = [lastDone EXCEPT ![Downstream(Job, args)] = Snapshot(Job)]
            /\ pc' = "loop"
            /\ j' = j + 1
            /\ UNCHANGED <<remote, exit, tmp>>
    /\ UNCHANGED <<fnVars, srcVars, out, runs, args, repodata, todo, manifest, push_objects, invoked>>

\* build.py:151: the push is made and the remote cannot be reached
PushFails ==
    /\ pc = "push"
    /\ push_decided(push_objects, args.git)
    /\ Exit(1)
    /\ log' = [log EXCEPT !.decided = TRUE, !.pushed = push_objects]
    /\ lastDone' = [lastDone EXCEPT ![Downstream(Job, args)] = Failed(Job)]
    /\ UNCHANGED <<fnVars, srcVars, remote, out, runs, args, repodata, todo, manifest, j,
                   push_objects, invoked>>

Next ==
    \/ SourceCommit
    \/ StartRun
    \/ CheckDirty
    \/ LoadConfig
    \/ SkipJob
    \/ Finish
    \/ ProcessExit
    \/ Prepare
    \/ PrepareFails
    \/ CodegenCommit
    \/ CodegenFails
    \/ Tags
    \/ Push
    \/ PushFails

Spec == Init /\ [][Next]_vars

\* ------------------------------------------ functions called on their own
\* the config.json of the protorepo, the objects of a service's config.json
\* and the service config files load_service_config is called with
DefaultChoices ==
    { [github_org |-> "acme"],
      [github_org |-> "acme", lang |-> "go"],
      [github_org |-> "acme", repo |-> <<"mono">>],
      [lang |-> "python"] }

OverrideChoices ==
    { [lang |-> "go"],
      [lang |-> "python"],
      [lang |-> "rust"],
      [lang |-> "go", repo |-> <<"custom">>],
      [github_org |-> "other"],
      [lang |-> "python", service |-> <<"x">>] }

ServiceFileChoices ==
    {NoFile} \cup UNION {[1..n -> OverrideChoices] : n \in 0..MaxOverrides}

\* build.py:185-189: the manifest of the services of listing; raised when
\* load_service_config raises for one of them
RECURSIVE load_manifest(_, _, _)
load_manifest(default_config, files, listing) ==
    IF listing = <<>> THEN [raised |-> FALSE, manifest |-> <<>>]
    ELSE LET service == Head(listing)
             rest == load_manifest(default_config, files, Tail(listing))
         IN  IF load_service_config_fails(service, default_config, files[service])
                \/ rest.raised
             THEN [raised |-> TRUE, manifest |-> <<>>]
             ELSE [raised |-> FALSE,
                   manifest |-> load_service_config(service, default_config, files[service])
                                \o rest.manifest]

\* the calls: check_dirty on three diffs, load_service_config on a service,
\* and the loop of main over the services, whose first service has any
\* config file and whose second has one of at most one object
Calls ==
    {[fn |-> "check_dirty", working |-> w, last_commit |-> l, staged |-> g] :
        w \in 0..MaxDiff, l \in 0..MaxDiff, g \in 0..MaxDiff}
    \cup
    {[fn |-> "load_service_config", service |-> s, default_config |-> d, service_file |-> f] :
        s \in Services, d \in DefaultChoices, f \in ServiceFileChoices}
    \cup
    {[fn |-> "manifest", default_config |-> d,
      files |-> [s \in Services |-> IF s = Head(ServiceListing) THEN f ELSE g]] :
        d \in DefaultChoices, f \in ServiceFileChoices,
        g \in {h \in ServiceFileChoices : Len(h) <= 1}}

InitFn ==
    /\ srcHead = 1
    /\ srcRefs = TagRefsFor(FirstTags, 1)
    /\ srcSkel = FirstContent.skel
    /\ srcGen = FirstContent.gen
    /\ cfg = CHOOSE c \in ConfigChoices : TRUE
    /\ remote = [u \in Urls |-> EmptyRemote]
    /\ out = NoDirs
    /\ tmp = NoDirs
    /\ pc = "idle"
    /\ runs = 0
    /\ args = NoArgs
    /\ repodata = NoData
    /\ todo = <<>>
    /\ manifest = <<>>
    /\ j = 0
    /\ push_objects = <<>>
    /\ exit = Null
    /\ invoked = {}
    /\ log = NoLog
    /\ lastDone = [k \in Urls \cup RepoNames \cup {Scratch} |-> Null]
    /\ call \in Calls
    /\ result = Null

mainVars == <<srcVars, remote, out, tmp, pc, runs, args, repodata, todo, manifest, j,
              push_objects, exit, invoked, log, lastDone>>

\* gitutils.py:91-99
Call_check_dirty ==
    /\ call.fn = "check_dirty"
    /\ result = Null
    /\ result' = [value |-> check_dirty(call.working, call.last_commit, call.staged)]
    /\ UNCHANGED <<mainVars, call>>

\* config.py:52-76
Call_load_service_config ==
    /\ call.fn = "load_service_config"
    /\ result = Null
    /\ result' = IF load_service_config_fails(call.service, call.default_config,
                                              call.service_file)
                 THEN [raised |-> "BadConfig"]
                 ELSE [value |-> load_service_config(call.service, call.default_config,
                                                     call.service_file)]
    /\ UNCHANGED <<mainVars, call>>

\* build.py:185-189
Call_manifest ==
    /\ call.fn = "manifest"
    /\ result = Null
    /\ result' = LET m == load_manifest(call.default_config, call.files, ServiceListing)
                 IN  IF m.raised THEN [raised |-> "BadConfig"] ELSE [value |-> m.manifest]
    /\ UNCHANGED <<mainVars, call>>

NextFn ==
    \/ Call_check_dirty
    \/ Call_load_service_config
    \/ Call_manifest

SpecFn == InitFn /\ [][NextFn]_vars

\* ------------------------------------------------- update_repo and any caller
\* build.py:86: update_repo is called with any git_data and update_git, by a
\* caller that resolves the manifest and loops over it as main does but puts no
\* condition on git_data['dirty']
StartCall ==
    /\ pc = "idle"
    /\ runs < MaxRuns
    /\ ~load_manifest(cfg.default, cfg.service, ServiceListing).raised
    /\ runs' = runs + 1
    /\ \E m \in ModeChoices, f \in FilterChoices :
          args' = [git |-> m.git, output |-> m.output, lang |-> f.lang, service |-> f.service]
    /\ \E diffs \in DiffChoices : repodata' = analyze_head(srcRefs, runs + 1, diffs)
    /\ manifest' = load_manifest(cfg.default, cfg.service, ServiceListing).manifest
    /\ j' = 1
    /\ tmp' = NoDirs
    /\ pc' = "loop"
    /\ UNCHANGED <<fnVars, srcVars, remote, out, todo, push_objects, exit, invoked, log,
                   lastDone>>

NextCall ==
    \/ SourceCommit
    \/ StartCall
    \/ SkipJob
    \/ Finish
    \/ ProcessExit
    \/ Prepare
    \/ PrepareFails
    \/ CodegenCommit
    \/ CodegenFails
    \/ Tags
    \/ Push
    \/ PushFails

SpecCall == Init /\ [][NextCall]_vars

\* ------------------------------------------------------------------ properties
Range(seq) == {seq[i] : i \in 1..Len(seq)}

\* the '/'-separated segments of a tag name, and the names of the snapshot's
\* tags that belong to a service
Segments(name) == split(name, "/")
NamesOf(git_data, service) ==
    {git_data.tags[i].name : i \in {k \in 1..Len(git_data.tags) :
        /\ Len(Segments(git_data.tags[k].name)) = 2
        /\ Segments(git_data.tags[k].name)[1] = service}}

\* C1 (idempotence): a call of update_repo that finds the downstream
\* repository as the last completed call for the same job and the same
\* snapshot (HEAD, tags at HEAD, rendered and generated files) left it makes
\* no commit, creates no tag and pushes nothing.
C1_Idempotence ==
    log.rerun =>
        /\ ~log.initial
        /\ ~log.commit
        /\ log.created = {}
        /\ log.pushed = <<>>

\* C2 (dirty refusal): a run with --git on a dirty snapshot is past line 180
\* only as a run that ended with exit code 1, with update_repo called for no job
\* and nothing cloned.
C2_DirtyRefusal ==
    (repodata.dirty /\ args.git /\ pc # "check") =>
        /\ pc = "done"
        /\ exit = 1
        /\ invoked = {}
        /\ tmp = NoDirs

C2_Witness ==
    /\ pc = "done"
    /\ repodata.dirty
    /\ args.git
    /\ exit = 1
    /\ invoked = {}

\* C3 (failure isolation): when a run in which update_repo was called has
\* ended, update_repo was called for every job of the manifest that passes the
\* filters, whether or not an earlier call failed.
C3_FailureIsolation ==
    (pc = "done" /\ invoked # {}) =>
        \A i \in 1..Len(manifest) : passes_filters(args, manifest[i]) => i \in invoked

\* C4 (push decision): once update_repo has reached its push decision, the
\* push was made exactly when --git was given and this call made the content
\* commit or created a tag.
C4_PushDecision ==
    log.decided =>
        ((log.pushed # <<>>) <=> (args.git /\ (log.commit \/ log.created # {})))

C4_Witness ==
    /\ log.decided
    /\ log.pushed # <<>>
    /\ ~log.commit
    /\ log.created # {}

\* C5 (tag affinity): every tag update_repo creates comes from a tag of the
\* protorepo whose name has exactly two '/'-separated segments, the first being
\* the job's service, and carries the second segment as its name.
C5_TagAffinity ==
    \A c \in log.created :
        /\ Len(Segments(c.name)) = 2
        /\ Segments(c.name)[1] = log.job["service"]
        /\ c.tag.name = Segments(c.name)[2]

C5_Witness ==
    /\ pc = "push"
    /\ log.created # {}
    /\ \E i \in 1..Len(repodata.tags) : Len(Segments(repodata.tags[i].name)) = 3
    /\ \E i \in 1..Len(repodata.tags) : Len(Segments(repodata.tags[i].name)) = 1
    /\ \E i \in 1..Len(repodata.tags) :
          /\ Len(Segments(repodata.tags[i].name)) = 2
          /\ Segments(repodata.tags[i].name)[1] # log.job["service"]

\* C6 (tags are append-only): in no step does a tag of a downstream repository
\* (a remote, or a repository under the --output directory) disappear or get
\* another target, tagger or message.
TagsKept(before, after) ==
    \A t \in before.tags :
        /\ t \in after.tags
        /\ \A t2 \in after.tags : t2.name = t.name => t2 = t

C6_TagsAppendOnly ==
    [][ /\ \A u \in Urls : TagsKept(remote[u], remote'[u])
        /\ \A r \in RepoNames : out[r] # Null => (out'[r] # Null /\ TagsKept(out[r], out'[r]))
      ]_vars

\* a run found a tag of the snapshot already present downstream, pointing at
\* an older commit than the tip, and left it alone
C6_Witness ==
    /\ pc = "push"
    /\ log.skipped # {}
    /\ \E t \in Repo.tags : t.target # Repo.branch

\* C7 (tag conflict is not fatal): the tag loop ends having tried every tag of
\* the job's service, skipping exactly those whose version name existed and
\* creating the others; and a call with --git that skipped a tag and made the
\* content commit has the branch in the batch it pushes.
C7_TagConflict ==
    /\ pc = "push" =>
          /\ log.attempted = NamesOf(repodata, log.job["service"])
          /\ {c.name : c \in log.created} \cup log.skipped = log.attempted
          /\ log.skipped =
                {n \in log.attempted :
                    \E t \in Repo.tags \ {c.tag : c \in log.created} : t.name = Segments(n)[2]}
    /\ (log.decided /\ log.skipped # {} /\ log.commit /\ args.git) =>
          branch \in Range(log.pushed)

C7_Witness ==
    /\ log.decided
    /\ log.skipped # {}
    /\ log.created # {}
    /\ log.commit
    /\ args.git
    /\ log.returned

\* C8 (no-op diff suppression): when the staged index equals the tree of the
\* branch tip, the commit step makes no commit, leaves the branch pointer where
\* it was and puts nothing into push_objects.
C8_NoOpDiff ==
    (pc = "tags" /\ Repo.index = TreeOf(log.tip)) =>
        /\ ~log.commit
        /\ Repo.branch = log.tip
        /\ push_objects = <<>>

C8_Witness ==
    /\ pc = "tags"
    /\ Repo.index = TreeOf(log.tip)
    /\ Repo.index # {}
    /\ ~log.initial

\* C9 (push batch): the batch update_repo pushes holds the branch when this
\* call moved the branch pointer (bootstrap commit or content commit), holds
\* every tag this call created and none it skipped.
C9_PushBatch ==
    log.pushed # <<>> =>
        /\ (log.initial \/ log.commit) => branch \in Range(log.pushed)
        /\ \A c \in log.created : tag_ref(c.tag.name) \in Range(log.pushed)
        /\ \A n \in log.skipped : tag_ref(Segments(n)[2]) \notin Range(log.pushed)

\* C10 (configuration failure aborts the run): update_repo is called only
\* after every service of the listing was resolved, so in a run whose listing
\* holds a service without config file or with a config that lacks lang or
\* github_org or names an unsupported lang, update_repo is called for no job.
BrokenConfig(service) ==
    \/ cfg.service[service] = NoFile
    \/ \E i \in 1..Len(cfg.service[service]) :
          LET merged == Update(cfg.default, cfg.service[service][i])
          IN  \/ {"lang", "github_org"} \ DOMAIN merged # {}
              \/ merged["lang"] \notin {"python", "go"}

C10_ConfigFailureAborts ==
    invoked # {} =>
        /\ todo = <<>>
        /\ \A service \in Services : ~BrokenConfig(service)
        /\ Len(manifest) = 2

C10_Witness ==
    /\ pc = "done"
    /\ exit = 1
    /\ invoked = {}
    /\ manifest # <<>>
    /\ BrokenConfig(<<"b">>)

\* the tree update_repo materialises for a job: the rendered template and the
\* generated sources
Materialised(job_config) == codegen(prepare_repo(FreshRepo, job_config), job_config).wt

\* C11 (partial-failure safety): as long as a call of update_repo with --git
\* has not returned from a push, whether it is running or has failed, the job's
\* remote is as the call found it; and a call that completes after the previous
\* call for the same job and snapshot failed before anything was pushed (the
\* commit being made or not) leaves the remote
\* as one uninterrupted call does: the branch is the remote's former tip when
\* the materialised tree equals its tree, and otherwise one new commit with
\* that tree whose only parent is the former tip (the parentless empty
\* bootstrap commit on a remote without branch); every former tag is kept
\* and every tag of the job's service exists exactly once.
C11_PartialFailureSafety ==
    /\ (log.job # Null /\ args.git /\ ~(log.returned /\ log.pushed # <<>>)) =>
          remote[clone_url(log.job)] = log.before
    /\ (log.returned /\ log.resumed /\ args.git) =>
          LET rem == remote[clone_url(log.job)]
              tree == Materialised(log.job)
              base == log.before.branch
          IN  /\ IF tree = TreeOf(base)
                 THEN rem.branch = base
                 ELSE /\ rem.branch # Null
                      /\ rem.branch.tree = tree
                      /\ Len(rem.branch.parents) = 1
                      /\ IF base # Null
                         THEN rem.branch.parents[1] = base
                         ELSE /\ rem.branch.parents[1].parents = <<>>
                              /\ rem.branch.parents[1].tree = {}
              /\ \A t \in log.before.tags : t \in rem.tags
              /\ \A n \in NamesOf(repodata, log.job["service"]) :
                    Cardinality({t \in rem.tags : t.name = Segments(n)[2]}) = 1

\* a call with --git resumed after a failed one, made the content commit,
\* created a tag and returned
C11_Witness ==
    /\ log.returned
    /\ log.resumed
    /\ args.git
    /\ log.commit
    /\ log.created # {}

\* the call of fn has returned a value / has raised
Returned(fn) == call # Null /\ call.fn = fn /\ result # Null /\ "value" \in DOMAIN result
Raised(fn) == call # Null /\ call.fn = fn /\ result # Null /\ "raised" \in DOMAIN result

\* the keys load_service_config sets itself
Injected == {"path", "service", "source_dir"}

\* C12 (config resolution result): load_service_config returns one config per
\* override object, in order; each has exactly the keys of the default, of
\* its own override and the keys set by the function, with the override's
\* value for a key of the override, the default's for another key of the
\* default, repo 'proto-{service}-{lang}' when neither has repo, service the
\* service and source_dir '{service}_proto'.
C12_ConfigResolution ==
    Returned("load_service_config") =>
        /\ Len(result.value) = Len(call.service_file)
        /\ \A i \in 1..Len(call.service_file) :
              LET d == call.default_config
                  o == call.service_file[i]
                  r == result.value[i]
              IN  /\ DOMAIN r = DOMAIN d \cup DOMAIN o \cup Injected \cup {"repo"}
                  /\ \A k \in DOMAIN o \ Injected : r[k] = o[k]
                  /\ \A k \in DOMAIN d \ (DOMAIN o \cup Injected) : r[k] = d[k]
                  /\ "repo" \notin DOMAIN d \cup DOMAIN o =>
                        r["repo"] = <<"proto-">> \o call.service \o <<"-", r["lang"]>>
                  /\ r["service"] = call.service
                  /\ r["source_dir"] = call.service \o <<"_proto">>

\* two overrides, the first with a repo and the second without one, and a
\* default without repo
C12_Witness ==
    /\ Returned("load_service_config")
    /\ Len(call.service_file) = 2
    /\ "repo" \in DOMAIN call.service_file[1]
    /\ "repo" \notin DOMAIN call.service_file[2] \cup DOMAIN call.default_config
    /\ result.value[2]["repo"] # result.value[1]["repo"]

\* C13 (config resolution failure): load_service_config raises, and returns
\* nothing, when the service has no config file or when the default overlaid
\* with one of the overrides lacks lang or github_org or has a lang that is
\* neither python nor go.
C13_ConfigFailure ==
    (call # Null /\ call.fn = "load_service_config" /\ result # Null) =>
        LET bad(o) ==
                LET merged == Update(call.default_config, o)
                IN  \/ "lang" \notin DOMAIN merged
                    \/ "github_org" \notin DOMAIN merged
                    \/ merged["lang"] \notin {"python", "go"}
        IN  (\/ call.service_file = NoFile
             \/ \E i \in 1..Len(call.service_file) : bad(call.service_file[i]))
            => Raised("load_service_config") /\ "value" \notin DOMAIN result

\* the call raised on a file whose first override is valid and whose second
\* names an unsupported language
C13_Witness ==
    /\ Raised("load_service_config")
    /\ call.service_file # NoFile
    /\ Len(call.service_file) = 2
    /\ FullConfigValid(Update(call.default_config, call.service_file[1]))
    /\ "lang" \in DOMAIN call.service_file[2]
    /\ call.service_file[2]["lang"] = "rust"

\* C14 (target isolation): any two jobs of the manifest main resolves have
\* different directories output_dir/repo and different clone urls.
C14_TargetIsolation ==
    Returned("manifest") =>
        \A a, b \in 1..Len(result.value) :
            a # b => /\ result.value[a]["repo"] # result.value[b]["repo"]
                     /\ clone_url(result.value[a]) # clone_url(result.value[b])

\* C16 (dirty detection): check_dirty returns TRUE exactly when one of the
\* three diffs has a delta.
C16_DirtyDetection ==
    Returned("check_dirty") =>
        /\ result.value \in BOOLEAN
        /\ result.value <=> (call.working > 0 \/ call.last_commit > 0 \/ call.staged > 0)

\* only the diff of the working tree against the index has deltas
C16_Witness ==
    /\ Returned("check_dirty")
    /\ call.working > 0
    /\ call.last_commit = 0
    /\ call.staged = 0
    /\ result.value = TRUE

\* the reference of the protorepo a tag record was made from
RefOf(t) == CHOOSE r \in srcRefs : r.ref = t.tag_ref

\* the records of the snapshot are those of the tag references at HEAD, each
\* with name, tagger and message, the name being the reference without
\* refs/tags/, and an annotated tag's tagger and message being the tag object's
TagRecords ==
    /\ pc # "idle" =>
          {repodata.tags[i].tag_ref : i \in 1..Len(repodata.tags)} =
              {r.ref : r \in {x \in srcRefs : get_target_from_tagref(x) = SrcCommit(srcHead)}}
    /\ \A i \in 1..Len(repodata.tags) :
          LET t == repodata.tags[i]
          IN  /\ {"name", "tagger", "message"} \subseteq DOMAIN t
              /\ <<"refs/tags/">> \o t.name = t.tag_ref
              /\ RefOf(t).target.type = "tag" =>
                    /\ t.tagger = RefOf(t).target.tagger
                    /\ t.message = RefOf(t).target.message
              /\ RefOf(t).target.type # "tag" => t.tagger = SrcCommit(srcHead).author

\* C15 (tag uniformity), amended: every tag at HEAD gets a record with tagger
\* and message; an annotated tag's are the tag object's, a lightweight tag's are
\* the author of the HEAD commit and the tag name followed by a newline.
C15_TagUniformity ==
    /\ TagRecords
    /\ \A i \in 1..Len(repodata.tags) :
          LET t == repodata.tags[i]
          IN  RefOf(t).target.type # "tag" => t.message = t.name \o <<"\n">>

\* a snapshot with an annotated and a lightweight tag at HEAD
C15_Witness ==
    /\ \E i \in 1..Len(repodata.tags) : RefOf(repodata.tags[i]).target.type = "tag"
    /\ \E i \in 1..Len(repodata.tags) : RefOf(repodata.tags[i]).target.type # "tag"

\* C15 (tag uniformity) as stated: as above, but the message of a lightweight
\* tag is equal to the tag name.
C15_MessageIsName ==
    /\ TagRecords
    /\ \A i \in 1..Len(repodata.tags) :
          LET t == repodata.tags[i]
          IN  RefOf(t).target.type # "tag" => t.message = t.name

\* C17 (defensive dirty check at push): a call of update_repo with a snapshot
\* whose dirty is true hands nothing to Remote.push.
C17_NoPushWhenDirty ==
    (log.job # Null /\ repodata.dirty) => log.pushed = <<>>

\* after the commit step of a call the branch is the tip the step found, or one
\* commit on top of it with the staged tree and the snapshot's author and
\* committer
OneCommit ==
    pc \in {"tags", "push"} =>
        IF log.commit
        THEN /\ Repo.branch.parents = <<log.tip>>
             /\ Repo.branch.tree = Repo.index
             /\ Repo.branch.author = repodata.author
             /\ Repo.branch.committer = repodata.committer
        ELSE Repo.branch = log.tip

\* a branch tip of a downstream repository is followed by itself or by one of
\* its descendants
TipsDescend ==
    /\ \A u \in Urls :
          remote[u].branch # Null => IsAncestor(remote[u].branch, remote'[u].branch)
    /\ \A r \in RepoNames :
          (out[r] # Null /\ out[r].branch # Null) =>
              (out'[r] # Null /\ IsAncestor(out[r].branch, out'[r].branch))

\* C18 (linear single commit): a call of update_repo makes at most one content
\* commit, whose only parent is the tip before the commit step, whose author
\* and committer are the snapshot's and which becomes the branch; and in every
\* step the tip of a downstream branch stays or moves to a descendant.
C18_LinearSingleCommit == []OneCommit /\ [][TipsDescend]_vars

\* a content commit made on top of an earlier content commit
C18_Witness ==
    /\ pc = "push"
    /\ log.commit
    /\ Len(log.tip.parents) = 1
    /\ Repo.branch.parents = <<log.tip>>

\* C19 (bootstrap-if-empty): after the bootstrap step of a call the branch has
\* a tip: the parentless 'Initial Commit' with the empty tree and the
\* snapshot's author and committer when the step made it, and otherwise the
\* tip the repository had.
C19_BootstrapIfEmpty ==
    pc = "codegen" =>
        /\ Repo.branch # Null
        /\ Repo.branch = log.tip
        /\ log.initial <=> Repo.branch = initial_commit(repodata)

\* C20 (tag target ordering): when the tag loop has ended, every tag it
\* created has the version segment as its name and points at the branch tip
\* left by the commit step: the content commit (on top of the former tip) when
\* the call made one, the former tip otherwise.
C20_TagTargetOrdering ==
    pc = "push" =>
        \A c \in log.created :
            /\ c.tag \in Repo.tags
            /\ c.tag.name = Segments(c.name)[2]
            /\ c.tag.target = Repo.branch
            /\ IF log.commit
               THEN c.tag.target # log.tip /\ c.tag.target.parents = <<log.tip>>
               ELSE c.tag.target = log.tip

\* a tag created in a call that made the content commit
C20_Witness ==
    /\ pc = "push"
    /\ log.commit
    /\ \E c \in log.created : c.tag.target.parents = <<log.tip>>

RECURSIVE History(_)
\* the commits reachable from commit c
History(c) ==
    IF c = Null THEN {}
    ELSE {c} \cup UNION {History(c.parents[i]) : i \in 1..Len(c.parents)}

\* every commit a repository holds: the history of its branch and of its tags
CommitsOf(r) == History(r.branch) \cup UNION {History(t.target) : t \in r.tags}

\* the message begins with the marker
Marked(c) == c.message # <<>> /\ Head(c.message) = "[DIRTY] - "

\* C21 (dirty marker): the content commit's message is 'Automatic Commit -
\* protoc codegen', a blank line and the message of the protorepo's HEAD,
\* preceded by '[DIRTY] - ' exactly when the snapshot is dirty; and no commit
\* held by a remote begins with the marker.
C21_DirtyMarker ==
    /\ (pc \in {"tags", "push"} /\ log.commit) =>
          /\ Repo.branch.message =
                (IF repodata.dirty THEN <<"[DIRTY] - ">> ELSE <<>>)
                \o <<"Automatic Commit - protoc codegen\n\n">> \o SrcCommit(srcHead).message
          /\ Marked(Repo.branch) <=> repodata.dirty
    /\ \A u \in Urls : \A c \in CommitsOf(remote[u]) : ~Marked(c)

\* a run without --git made the content commit from a dirty snapshot
C21_Witness ==
    /\ pc = "push"
    /\ log.commit
    /\ repodata.dirty
    /\ Marked(Repo.branch)
    /\ ~args.git

\* the targets the loop of main has gone past are those update_repo was called
\* for or those the filters leave out
FilteredCalls ==
    \A i \in 1..Len(manifest) :
        LET wanted == /\ (args.lang = NoLang \/ args.lang = manifest[i]["lang"])
                      /\ (args.service = NoService \/ args.service = manifest[i]["service"])
        IN  /\ i \in invoked => wanted
            /\ (i < j /\ wanted) => i \in invoked

\* no step of a run changes the remote or the directory under --output of a
\* target the filters leave out
FilteredKept ==
    \A i \in 1..Len(manifest) :
        ~passes_filters(args, manifest[i]) =>
            /\ remote'[clone_url(manifest[i])] = remote[clone_url(manifest[i])]
            /\ out'[manifest[i]["repo"]] = out[manifest[i]["repo"]]

\* C22 (filters): update_repo is called for a target exactly when no --lang
\* is given or it is the target's lang and no --service is given or it is the
\* target's service; and a run leaves the downstream repository of a target it
\* filters out as it found it.
C22_Filters == []FilteredCalls /\ [][FilteredKept]_vars

\* C23 (tag enumeration): the tag records of the snapshot are made, one each,
\* from the references under refs/tags/ whose target is HEAD's commit, or is an
\* annotated tag object whose own target is HEAD's commit; no other reference
\* gets a record.
C23_TagEnumeration ==
    pc # "idle" =>
        LET head == SrcCommit(srcHead)
            listed == {repodata.tags[i].tag_ref : i \in 1..Len(repodata.tags)}
            lightweight == {r \in srcRefs : r.target = head}
            annotated == {r \in srcRefs : r.target.type = "tag" /\ r.target.target = head}
        IN  /\ listed = {r.ref : r \in lightweight \cup annotated}
            /\ Len(repodata.tags) = Cardinality(lightweight \cup annotated)
            /\ \A ref \in listed : Head(ref) = "refs/tags/"

\* HEAD has a lightweight and an annotated tag, and there are a tag at an
\* older commit and a tag of a tag of HEAD's commit
C23_Witness ==
    /\ pc # "idle"
    /\ \E i \in 1..Len(repodata.tags) : RefOf(repodata.tags[i]).target.type = "tag"
    /\ \E i \in 1..Len(repodata.tags) : RefOf(repodata.tags[i]).target = SrcCommit(srcHead)
    /\ \E r \in srcRefs : r.target.type = "commit" /\ r.target # SrcCommit(srcHead)
    /\ \E r \in srcRefs :
          /\ r.target.type = "tag"
          /\ r.target.target.type = "tag"
          /\ r.target.target.target = SrcCommit(srcHead)

\* C24 (step ordering): when prepare_repo has returned, the working tree
\* holds the rendered template and nothing else, while what .git holds (the
\* branch, the tags and the index of a clone) is as the clone delivered it; when
\* staging is done, the index is exactly the tree this call materialised
\* (rendered template and generated sources), so that a file of the former tip
\* that is no longer produced is deleted by the content commit.
C24_StepOrdering ==
    /\ pc = "codegen" =>
          /\ Repo.wt = prepare_repo(FreshRepo, log.job).wt
          /\ args.git =>
                /\ Repo.tags \subseteq log.before.tags
                /\ Repo.index = TreeOf(log.before.branch)
                /\ ~log.initial => Repo.branch = log.before.branch
    /\ pc \in {"tags", "push"} =>
          /\ Repo.wt = Materialised(log.job)
          /\ Repo.index = Materialised(log.job)
          /\ Repo.branch.tree = Materialised(log.job)
          /\ TreeOf(log.tip) # Materialised(log.job) =>
                /\ log.commit
                /\ (TreeOf(log.tip) \ Materialised(log.job)) \cap Repo.branch.tree = {}

\* the tip holds files the call does not produce and lacks files it produces
C24_Witness ==
    /\ pc = "tags"
    /\ log.commit
    /\ TreeOf(log.tip) \ Repo.index # {}
    /\ Repo.index \ TreeOf(log.tip) # {}

\* C25 (remote consistency): every tag of a remote points at a commit that is
\* the tip of the remote's branch or one of its ancestors.
C25_RemoteConsistency ==
    \A u \in Urls : \A t \in remote[u].tags : IsAncestor(t.target, remote[u].branch)

====
